---- MODULE Spec2Model ----
(***************************************************************************)
(* m2r2: Markdown to reStructuredText converter.                            *)
(*                                                                         *)
(* A text is a sequence of characters; a character is a one-character      *)
(* string, except WIDE, which stands for one East Asian wide character     *)
(* (U+4E2D) of column width 2, and BT, the grave accent (U+0060).          *)
(*                                                                         *)
(* Spec          the converter's life cycle: convert() / M2R2.__call__,    *)
(*               the renderer calls made bottom-up while the document is   *)
(*               parsed, and post_process.                                 *)
(* SpecRenderer  direct calls of single renderer methods on one renderer   *)
(*               instance, with inputs drawn from bounded sets.            *)
(* SpecParser    a converter built from keyword options parses paragraphs  *)
(*               of inline text with its RestInlineParser.                 *)
(***************************************************************************)
EXTENDS Naturals, Integers, Sequences, FiniteSets, TLC

VARIABLES
    pc,               \* Spec: "idle", "parse", "done" or "error";
                      \* SpecRenderer and SpecParser: "new", "ready",
                      \* "called" or "error"
    via,              \* how the current parse was entered: "convert", "call";
                      \* SpecParser: who built the inline parser
    cls_raw,          \* class attribute RestRenderer._include_raw_html
    renderer,         \* the converter's RestRenderer instance
    tokens,           \* the nodes rendered so far by the current parse;
                      \* SpecRenderer: the items of the list or footnote
                      \* block the latest call rendered
    inl,              \* rendered inline children of the block being built
    body,             \* rendered items of the list being built
    data,             \* rendered blocks of the document
    result,           \* the text returned by the current parse
    returned,         \* TRUE when the current parse has returned result
    prev_raw,         \* some earlier parse went through _raw_html
    ncalls,           \* number of parses started
    last,             \* the latest renderer call: node, children, return
    m2r2_kwargs,      \* the keyword options the converter was built with
    inline            \* the converter's RestInlineParser instance

vars == <<pc, via, cls_raw, renderer, tokens, inl, body, data, result,
          returned, prev_raw, ncalls, last, m2r2_kwargs, inline>>

(***************************************************************************)
(* Bounds                                                                  *)
(***************************************************************************)
MaxNodes == 3
MaxCalls == 2
MaxUrlLen == 4
MaxCodeLen == 3
MaxTitleLen == 2
\* longest rendered child text of an inline node
MaxChildLen == 2
\* most items of a list
MaxItems == 2
\* most footnote definitions of a document
MaxFootnotes == 2
\* longest paragraph text drawn from an alphabet
MaxInlineLen == 4

(***************************************************************************)
(* Python str built-ins                                                    *)
(***************************************************************************)
WIDE == "U+4E2D"

\* the grave accent (U+0060), the delimiter of code spans and of roles
BT == "U+0060"

NL == "\n"

Min(S) == CHOOSE x \in S : \A y \in S : x <= y

Max(S) == CHOOSE x \in S : \A y \in S : x >= y

\* the positions at which sub occurs in s
occurrences(s, sub) ==
    {i \in 1..(Len(s) - Len(sub) + 1) : SubSeq(s, i, i + Len(sub) - 1) = sub}

\* str.find, 1-based; 0 when sub does not occur
find(s, sub) ==
    IF occurrences(s, sub) = {} THEN 0 ELSE Min(occurrences(s, sub))

\* str.rfind, 1-based; 0 when sub does not occur
rfind(s, sub) ==
    IF occurrences(s, sub) = {} THEN 0 ELSE Max(occurrences(s, sub))

contains(s, sub) == occurrences(s, sub) # {}

startswith(s, p) == Len(s) >= Len(p) /\ SubSeq(s, 1, Len(p)) = p

endswith(s, p) == Len(s) >= Len(p) /\ SubSeq(s, Len(s) - Len(p) + 1, Len(s)) = p

RECURSIVE replace(_, _, _)
\* str.replace: every non-overlapping occurrence, scanning left to right
replace(s, old, new) ==
    LET i == find(s, old)
    IN IF i = 0 THEN s
       ELSE SubSeq(s, 1, i - 1) \o new
            \o replace(SubSeq(s, i + Len(old), Len(s)), old, new)

RECURSIVE splitlines(_)
splitlines(s) ==
    IF s = <<>> THEN <<>>
    ELSE LET i == find(s, <<NL>>) IN
         IF i = 0 THEN <<s>>
         ELSE <<SubSeq(s, 1, i - 1)>> \o splitlines(SubSeq(s, i + 1, Len(s)))

RECURSIVE join(_, _)
join(sep, lines) ==
    IF lines = <<>> THEN <<>>
    ELSE IF Len(lines) = 1 THEN lines[1]
    ELSE lines[1] \o sep \o join(sep, Tail(lines))

\* the str * int operator on a one-character string
repeat(c, n) == <<>> \o [i \in 1..n |-> c]

\* docutils.utils.column_width: wide characters take two columns
column_width(s) == Len(s) + Cardinality({i \in 1..Len(s) : s[i] = WIDE})

(***************************************************************************)
(* urllib.parse.urlparse and os.path.splitext, as link() uses them         *)
(***************************************************************************)
ascii_letters ==
    {"a", "b", "c", "d", "e", "f", "g", "h", "i", "j", "k", "l", "m",
     "n", "o", "p", "q", "r", "s", "t", "u", "v", "w", "x", "y", "z",
     "A", "B", "C", "D", "E", "F", "G", "H", "I", "J", "K", "L", "M",
     "N", "O", "P", "Q", "R", "S", "T", "U", "V", "W", "X", "Y", "Z"}

digits == {"0", "1", "2", "3", "4", "5", "6", "7", "8", "9"}

scheme_chars == ascii_letters \cup digits \cup {"+", "-", "."}

is_alpha(c) == c \in ascii_letters

\* index of the first character of s that is in cs; Len(s) + 1 when none
find_any(s, cs) == Min({i \in 1..Len(s) : s[i] \in cs} \cup {Len(s) + 1})

urlparse(url) ==
    LET i == find(url, <<":">>)
        has_scheme == /\ i > 1
                      /\ is_alpha(url[1])
                      /\ \A k \in 1..(i - 1) : url[k] \in scheme_chars
        scheme == IF has_scheme THEN SubSeq(url, 1, i - 1) ELSE <<>>
        u1 == IF has_scheme THEN SubSeq(url, i + 1, Len(url)) ELSE url
        has_netloc == startswith(u1, <<"/", "/">>)
        after == SubSeq(u1, 3, Len(u1))
        j == find_any(after, {"/", "?", "#"})
        netloc == IF has_netloc THEN SubSeq(after, 1, j - 1) ELSE <<>>
        u2 == IF has_netloc THEN SubSeq(after, j, Len(after)) ELSE u1
        h == find(u2, <<"#">>)
        fragment == IF h = 0 THEN <<>> ELSE SubSeq(u2, h + 1, Len(u2))
        u3 == IF h = 0 THEN u2 ELSE SubSeq(u2, 1, h - 1)
        q == find(u3, <<"?">>)
        query == IF q = 0 THEN <<>> ELSE SubSeq(u3, q + 1, Len(u3))
        path == IF q = 0 THEN u3 ELSE SubSeq(u3, 1, q - 1)
    IN [scheme |-> scheme, netloc |-> netloc, path |-> path,
        query |-> query, fragment |-> fragment]

\* os.path.splitext(p)[0]: the extension is what follows the last dot of the
\* last path component, leading dots of that component not counted
splitext0(p) ==
    LET sepIndex == rfind(p, <<"/">>)
        dotIndex == rfind(p, <<".">>)
    IN IF /\ dotIndex > sepIndex
          /\ \E k \in (sepIndex + 1)..(dotIndex - 1) : p[k] # "."
       THEN SubSeq(p, 1, dotIndex - 1)
       ELSE p

(***************************************************************************)
(* RestRenderer: class constants                                           *)
(***************************************************************************)
PROLOG == <<".", ".", " ", "r", "o", "l", "e", ":", ":", " ", "r", "a", "w",
            "-", "h", "t", "m", "l", "-", "m", "2", "r", "(", "r", "a", "w",
            ")", "\n", " ", " ", " ", ":", "f", "o", "r", "m", "a", "t", ":",
            " ", "h", "t", "m", "l", "\n", "\n">>

indent == <<" ", " ", " ">>

list_marker == <<"{", "#", "_", "_", "r", "e", "s", "t", "_", "l", "i", "s",
                 "t", "_", "m", "a", "r", "k", "_", "_", "#", "}">>

hmarks == (1 :> "=") @@ (2 :> "-") @@ (3 :> "^") @@ (4 :> "~") @@
          (5 :> "\"") @@ (6 :> "#")

\* the standalone-escape marker, backslash and space
ESC == <<"\\", " ">>

(***************************************************************************)
(* RestRenderer: methods.  A method returns the record                     *)
(*   self   the instance after the call                                    *)
(*   cls    the class attribute _include_raw_html after the call           *)
(*   ret    the returned text                                              *)
(*   raised TRUE when the call raised instead of returning                 *)
(***************************************************************************)
Return(self, cls, ret) ==
    [self |-> self, cls |-> cls, ret |-> ret, raised |-> FALSE]

Raise(self, cls) ==
    [self |-> self, cls |-> cls, ret |-> <<>>, raised |-> TRUE]

\* RestRenderer.__init__: the options are stored; the instance has no
\* attribute _include_raw_html of its own yet
RestRenderer_init(kwargs) ==
    [parse_relative_links |-> kwargs.parse_relative_links,
     anonymous_references |-> kwargs.anonymous_references,
     use_mermaid |-> kwargs.use_mermaid,
     has_include_raw_html |-> FALSE]

\* the value of self._include_raw_html: the instance attribute, which is
\* only ever True, when it is set, and the class attribute otherwise
include_raw_html(self, cls) ==
    IF self.has_include_raw_html THEN TRUE ELSE cls

raw_html_text(html) ==
    ESC \o <<":", "r", "a", "w", "-", "h", "t", "m", "l", "-", "m", "2", "r",
             ":", BT>> \o html \o <<BT>> \o ESC

\* _raw_html forgetting the flag
_raw_html_no_flag(self, cls, html) == Return(self, cls, raw_html_text(html))

\* _raw_html setting the attribute of the class, not of the instance
_raw_html_on_class(self, cls, html) == Return(self, TRUE, raw_html_text(html))

_raw_html(self, cls, html) ==
    Return([self EXCEPT !.has_include_raw_html = TRUE], cls,
           raw_html_text(html))

_indent_block(block) ==
    LET lines == splitlines(block)
    IN join(<<NL>>, [i \in 1..Len(lines) |->
                       IF lines[i] # <<>> THEN indent \o lines[i] ELSE <<>>])

\* str.strip(): t without the white space at its two ends
strip(t) ==
    LET inked == {i \in 1..Len(t) : t[i] \notin {" ", NL}}
    IN IF inked = {} THEN <<>> ELSE SubSeq(t, Min(inked), Max(inked))

\* the directives of block_code
math_directive == <<".", ".", " ", "m", "a", "t", "h", ":", ":">>

mermaid_directive ==
    <<".", ".", " ", "m", "e", "r", "m", "a", "i", "d", ":", ":">>

code_block_directive ==
    <<".", ".", " ", "c", "o", "d", "e", "-", "b", "l", "o", "c", "k", ":",
      ":">>

mermaid == <<"m", "e", "r", "m", "a", "i", "d">>

\* block_code giving the mermaid directive without asking use_mermaid
block_code_mermaid_always(self, cls, children, info) ==
    LET lang == IF info # <<>> THEN strip(info) ELSE <<>>
        first_line ==
          IF lang = <<"m", "a", "t", "h">>
          THEN <<NL>> \o math_directive \o <<NL, NL>>
          ELSE IF lang = mermaid
          THEN <<NL>> \o mermaid_directive \o <<NL, NL>>
          ELSE IF lang # <<>>
          THEN <<NL>> \o code_block_directive \o <<" ">> \o lang \o <<NL, NL>>
          ELSE <<NL>> \o code_block_directive \o <<NL, NL>>
    IN Return(self, cls, first_line \o _indent_block(children) \o <<NL>>)

\* block_code(children, info); an absent info and an empty one are both
\* false for "if info", and so is the empty lang for "elif lang"
block_code(self, cls, children, info) ==
    LET lang == IF info # <<>> THEN strip(info) ELSE <<>>
        first_line ==
          IF lang = <<"m", "a", "t", "h">>
          THEN <<NL>> \o math_directive \o <<NL, NL>>
          ELSE IF lang = mermaid /\ self.use_mermaid
          THEN <<NL>> \o mermaid_directive \o <<NL, NL>>
          ELSE IF lang # <<>>
          THEN <<NL>> \o code_block_directive \o <<" ">> \o lang \o <<NL, NL>>
          ELSE <<NL>> \o code_block_directive \o <<NL, NL>>
    IN Return(self, cls, first_line \o _indent_block(children) \o <<NL>>)

text(self, cls, t) == Return(self, cls, t)

emphasis(self, cls, t) == Return(self, cls, ESC \o <<"*">> \o t \o <<"*">> \o ESC)

code_html(t) ==
    <<"<", "c", "o", "d", "e", " ", "c", "l", "a", "s", "s", "=", "\"", "d",
      "o", "c", "u", "t", "i", "l", "s", " ", "l", "i", "t", "e", "r", "a",
      "l", "\"", ">", "<", "s", "p", "a", "n", " ", "c", "l", "a", "s", "s",
      "=", "\"", "p", "r", "e", "\"", ">">>
    \o t
    \o <<"<", "/", "s", "p", "a", "n", ">", "<", "/", "c", "o", "d", "e", ">">>

literal(t) == ESC \o <<BT, BT>> \o t \o <<BT, BT>> \o ESC

\* codespan testing for one backtick, not two
codespan_one_backtick(self, cls, t) ==
    IF ~contains(t, <<BT>>)
    THEN Return(self, cls, literal(t))
    ELSE _raw_html(self, cls,
                   code_html(replace(t, <<BT>>, <<"&", "#", "9", "6", ";">>)))

codespan(self, cls, t) ==
    IF ~contains(t, <<BT, BT>>)
    THEN Return(self, cls, literal(t))
    ELSE _raw_html(self, cls,
                   code_html(replace(t, <<BT>>, <<"&", "#", "9", "6", ";">>)))

linebreak(self, cls) ==
    LET r == _raw_html(self, cls, <<"<", "b", "r", ">">>)
    IN [r EXCEPT !.ret = @ \o <<NL>>]

strikethrough(self, cls, t) ==
    _raw_html(self, cls,
              <<"<", "d", "e", "l", ">">> \o t \o <<"<", "/", "d", "e", "l", ">">>)

inline_html(self, cls, html) == _raw_html(self, cls, html)

\* "children or link": the link stands in for an absent or empty text
shown(url, children) == IF children # <<>> THEN children ELSE url

underscore_swapped(self) ==
    IF self.anonymous_references THEN <<"_">> ELSE <<"_", "_">>

underscore(self) ==
    IF self.anonymous_references THEN <<"_", "_">> ELSE <<"_">>

\* the external hyperlink reference
hyperlink(self, url, children) ==
    ESC \o <<BT>> \o shown(url, children) \o <<" ", "<">> \o url
    \o <<">", BT>> \o underscore(self) \o ESC

doc_link_keeps_anchor(url_info) ==
    splitext0(url_info.path) \o url_info.fragment

\* the target of a relative link: the path without its extension, and the
\* fragment only when there is no path
doc_link(url_info) ==
    LET anchor == IF url_info.fragment # <<>> /\ url_info.path # <<>>
                  THEN <<>> ELSE url_info.fragment
    IN splitext0(url_info.path) \o anchor

link_type(url_info) ==
    IF url_info.fragment # <<>> /\ url_info.path = <<>>
    THEN <<"r", "e", "f">> ELSE <<"d", "o", "c">>

\* the :doc: or :ref: role of a relative link
cross_reference(url, children) ==
    ESC \o <<":">> \o link_type(urlparse(url)) \o <<":", BT>>
    \o shown(url, children) \o <<" ", "<">> \o doc_link(urlparse(url))
    \o <<">", BT>> \o ESC

\* the raw-HTML anchor of a titled link
anchor_html(url, children, title) ==
    <<"<", "a", " ", "h", "r", "e", "f", "=", "\"">> \o url
    \o <<"\"", " ", "t", "i", "t", "l", "e", "=", "\"">> \o title
    \o <<"\"", ">">> \o shown(url, children) \o <<"<", "/", "a", ">">>

link_title_last(self, cls, url, children, title) ==
    IF ~self.parse_relative_links \/ urlparse(url).scheme # <<>>
    THEN Return(self, cls, hyperlink(self, url, children))
    ELSE IF title # <<>>
    THEN _raw_html(self, cls, anchor_html(url, children, title))
    ELSE Return(self, cls, cross_reference(url, children))

\* link(link, children, title); an absent title and an empty one are both
\* false for "if title"
link(self, cls, url, children, title) ==
    IF title # <<>>
    THEN _raw_html(self, cls, anchor_html(url, children, title))
    ELSE IF ~self.parse_relative_links
    THEN Return(self, cls, hyperlink(self, url, children))
    ELSE IF urlparse(url).scheme # <<>>
    THEN Return(self, cls, hyperlink(self, url, children))
    ELSE Return(self, cls, cross_reference(url, children))

heading_default_mark(self, cls, t, level) ==
    Return(self, cls,
           <<NL>> \o t \o <<NL>>
           \o repeat(IF level \in DOMAIN hmarks THEN hmarks[level] ELSE "=",
                     Len(t))
           \o <<NL>>)

heading(self, cls, t, level) ==
    IF level \in DOMAIN hmarks
    THEN Return(self, cls,
           <<NL>> \o t \o <<NL>> \o repeat(hmarks[level], Len(t)) \o <<NL>>)
    ELSE Raise(self, cls)

paragraph(self, cls, t) ==
    LET n == Len(t)
        t1 == IF n >= 2 /\ SubSeq(t, n - 1, n) = <<":", ":">>
              THEN SubSeq(t, 1, n - 1) ELSE t
    IN Return(self, cls, <<NL>> \o t1 \o <<NL>>)

block_text(self, cls, t) == Return(self, cls, t \o <<NL>>)

list_item(self, cls, t) == Return(self, cls, <<NL>> \o list_marker \o t)

list(self, cls, t, ordered) ==
    LET mark == IF ordered THEN <<"#", ".", " ">> ELSE <<"*", " ">>
        lines == splitlines(t)
        lines1 == [i \in 1..Len(lines) |->
                     IF lines[i] # <<>> /\ ~startswith(lines[i], list_marker)
                     THEN repeat(" ", Len(mark)) \o lines[i]
                     ELSE lines[i]]
    IN Return(self, cls,
              replace(<<NL>> \o join(<<NL>>, lines1) \o <<NL>>, list_marker, mark))

\* strong(text); the strong emphasis of the renderer M2R2 uses
strong(self, cls, t) ==
    Return(self, cls, ESC \o <<"*", "*">> \o t \o <<"*", "*">> \o ESC)

\* strong(text) of the RestRenderer of rst/renderer.py
rst_renderer_strong(self, cls, t) ==
    Return(self, cls, <<"*", "*">> \o t \o <<"*", "*">>)

\* double_emphasis(text) of the RestRenderer of rst/renderer.py
rst_renderer_double_emphasis(self, cls, t) ==
    Return(self, cls, ESC \o <<"*", "*">> \o t \o <<"*", "*">> \o ESC)

\* footnote_ref(key, index)
footnote_ref(self, cls, key, index) ==
    Return(self, cls,
           ESC \o <<"[", "#", "f", "n", "-">> \o key \o <<"]", "_">> \o ESC)

\* footnote_item(key, text)
footnote_item(self, cls, key, t) ==
    Return(self, cls,
           <<".", ".", " ", "[", "#", "f", "n", "-">> \o key \o <<"]", " ">>
           \o strip(t) \o <<NL>>)

\* footnotes putting the blank line before an empty text as well
footnotes_always_led(self, cls, t) == Return(self, cls, <<NL, NL>> \o t)

\* footnotes(text)
footnotes(self, cls, t) ==
    Return(self, cls, IF t # <<>> THEN <<NL, NL>> \o t ELSE <<>>)

\* inline_math(math)
inline_math(self, cls, math) ==
    Return(self, cls, <<":", "m", "a", "t", "h", ":", BT>> \o math \o <<BT>>)

eol_literal_marker(self, cls, marker) == Return(self, cls, marker)

(***************************************************************************)
(* RestInlineParser.  An instance is the record                            *)
(*   args, kwargs     what __init__ hands on to the base constructor       *)
(*   RULE_NAMES       the value of self.RULE_NAMES                         *)
(*   RUlE_NAMES       the value of self.RUlE_NAMES (lower-case l)          *)
(*   DOUBLE_EMPHASIS, EMPHASIS   the delimiters the two patterns accept    *)
(* A keyword dictionary is a function from the names given to their        *)
(* values.                                                                 *)
(***************************************************************************)
\* kwargs.pop(key, default): the value
pop(kwargs, key, default) ==
    IF key \in DOMAIN kwargs THEN kwargs[key] ELSE default

\* kwargs after the keys were popped
popped(kwargs, keys) == [k \in DOMAIN kwargs \ keys |-> kwargs[k]]

Range(s) == {s[i] : i \in DOMAIN s}

\* the inline rules of the generic engine that this module's patterns and
\* handlers refine; the attribute RULE_NAMES of the base class
RULE_NAMES == <<"double_emphasis", "emphasis", "codespan">>

\* the class attribute the rules of this module are listed in
RUlE_NAMES ==
    <<"inline_math", "image_link", "rest_role", "rest_link",
      "eol_literal_marker">> \o RULE_NAMES

\* the delimiters of the class's DOUBLE_EMPHASIS and EMPHASIS patterns
underscore_and_asterisk == {"_", "*"}

\* no_underscore_emphasis(): the patterns of the instance become
\* asterisk-only.  No code calls it.
no_underscore_emphasis(self) ==
    [self EXCEPT !.DOUBLE_EMPHASIS = {"*"}, !.EMPHASIS = {"*"}]

\* RestInlineParser.__init__(renderer, *args, **kwargs)
RestInlineParser_init(args, kwargs) ==
    LET disable_inline_math == pop(kwargs, "disable_inline_math", FALSE)
        self == [args |-> args,
                 kwargs |-> popped(kwargs, {"disable_inline_math"}),
                 RULE_NAMES |-> RULE_NAMES,
                 RUlE_NAMES |-> RUlE_NAMES,
                 DOUBLE_EMPHASIS |-> underscore_and_asterisk,
                 EMPHASIS |-> underscore_and_asterisk]
        inline_maths == "inline_math" \in Range(self.RULE_NAMES)
    IN IF disable_inline_math
       THEN IF inline_maths
            THEN [self EXCEPT !.RULE_NAMES =
                      SelectSeq(self.RUlE_NAMES, LAMBDA x : x # "inline_math")]
            ELSE self
       ELSE IF ~inline_maths
       THEN [self EXCEPT !.RUlE_NAMES = <<"inline_math">> \o @]
       ELSE self

\* the rule table the engine scans with: the names in self.RULE_NAMES
rules(self) == self.RULE_NAMES

(***************************************************************************)
(* The patterns, matched at the start of the rest r of the text.  A match  *)
(* is its length and its group; len = 0 stands for no match.               *)
(***************************************************************************)
isspace(c) == c \in {" ", NL}

\* a word character of the patterns' \b
is_word(c) == c \in ascii_letters \cup digits \cup {"_"}

NoMatch == [len |-> 0, group |-> <<>>, has_group |-> FALSE]

Match(len, group, has_group) ==
    [len |-> len, group |-> group, has_group |-> has_group]

\* a backtick, a dollar, the shortest text without a line end, a dollar and a
\* backtick
INLINE_MATH(r) ==
    LET ends == {j \in 3..(Len(r) - 1) :
                    /\ r[j] = "$"
                    /\ r[j + 1] = BT
                    /\ \A i \in 3..(j - 1) : r[i] # NL}
    IN IF Len(r) >= 4 /\ r[1] = BT /\ r[2] = "$" /\ ends # {}
       THEN Match(Min(ends) + 1, SubSeq(r, 3, Min(ends) - 1), TRUE)
       ELSE NoMatch

\* the number of groups of INLINE_MATH
INLINE_MATH_groups == 1

\* optional white space (the group), two colons, white space to the end
EOL_LITERAL_MARKER(r) ==
    LET starts == {a \in 0..(Len(r) - 2) :
                      /\ \A i \in 1..a : isspace(r[i])
                      /\ r[a + 1] = ":"
                      /\ r[a + 2] = ":"
                      /\ \A i \in (a + 3)..Len(r) : isspace(r[i])}
    IN IF starts # {}
       THEN Match(Len(r), SubSeq(r, 1, Min(starts)), Min(starts) > 0)
       ELSE NoMatch

\* x is made of pairs cc and of characters other than c
units(x, c) ==
    \A p \in 1..Len(x) :
        (x[p] = c /\ (p = 1 \/ x[p - 1] # c)) =>
           LET q == Min({k \in p..Len(x) : k = Len(x) \/ x[k + 1] # c})
           IN (q - p + 1) % 2 = 0

\* _word_ between word boundaries, or *word* not followed by an asterisk
EMPHASIS(r, delims) ==
    LET ends == {j \in 3..Len(r) :
                    /\ r[j] = r[1]
                    /\ units(SubSeq(r, 2, j - 1), r[1])
                    /\ IF r[1] = "_"
                       THEN j = Len(r) \/ ~is_word(r[j + 1])
                       ELSE j = Len(r) \/ r[j + 1] # "*"}
    IN IF Len(r) >= 3 /\ r[1] \in delims /\ ends # {}
       THEN Match(Min(ends), SubSeq(r, 2, Min(ends) - 1), TRUE)
       ELSE NoMatch

\* two delimiters, the shortest text, and the second delimiter twice and not
\* a third time
DOUBLE_EMPHASIS(r, delims) ==
    LET ends == {j \in 4..(Len(r) - 1) :
                    /\ r[j] = r[2]
                    /\ r[j + 1] = r[2]
                    /\ (j + 1 = Len(r) \/ r[j + 2] # r[2])}
    IN IF Len(r) >= 5 /\ r[1] \in delims /\ r[2] \in delims /\ ends # {}
       THEN Match(Min(ends) + 1, SubSeq(r, 3, Min(ends) - 1), TRUE)
       ELSE NoMatch

\* the engine's code span: a backtick, text, a backtick
CODESPAN(r) ==
    LET ends == {j \in 3..Len(r) : r[j] = BT}
    IN IF Len(r) >= 3 /\ r[1] = BT /\ r[2] # BT /\ ends # {}
       THEN Match(Min(ends), SubSeq(r, 2, Min(ends) - 1), TRUE)
       ELSE NoMatch

\* the pattern of the rule name; the texts parsed hold no image link, role
\* or explicit link of the target format
pattern(self, name, r) ==
    CASE name = "inline_math" -> INLINE_MATH(r)
      [] name = "eol_literal_marker" -> EOL_LITERAL_MARKER(r)
      [] name = "double_emphasis" -> DOUBLE_EMPHASIS(r, self.DOUBLE_EMPHASIS)
      [] name = "emphasis" -> EMPHASIS(r, self.EMPHASIS)
      [] name = "codespan" -> CODESPAN(r)
      [] OTHER -> NoMatch

\* the first rule of the table that matches, "text" when none does
first_rule(self, r) ==
    LET hits == {i \in 1..Len(rules(self)) :
                    pattern(self, rules(self)[i], r).len > 0}
    IN IF hits = {} THEN "text" ELSE rules(self)[Min(hits)]

\* parse_inline_math: the handler asks the match for its group 2
parse_inline_math(self, cls, m) ==
    IF INLINE_MATH_groups >= 2
    THEN inline_math(self, cls, m.group)
    ELSE Raise(self, cls)

\* parse_eol_literal_marker
parse_eol_literal_marker(self, cls, m) ==
    eol_literal_marker(self, cls, IF ~m.has_group THEN <<":">> ELSE <<>>)

\* the one element of a set of one element
the(S) == CHOOSE x \in S : TRUE

RECURSIVE parse_inline(_, _, _, _)
\* the text s begins with a match m of the rule name: the handler of the
\* rule and the renderer method; the text of an emphasis is parsed in its
\* turn (it may hold a code span)
render_first(p, self, cls, name, m) ==
    CASE name = "text" -> text(self, cls, m.group)
      [] name = "inline_math" -> parse_inline_math(self, cls, m)
      [] name = "eol_literal_marker" -> parse_eol_literal_marker(self, cls, m)
      [] name = "codespan" -> codespan(self, cls, m.group)
      [] name = "emphasis" ->
           the({IF sub.raised THEN sub
                ELSE emphasis(sub.self, sub.cls, sub.ret) :
                sub \in {parse_inline(p, self, cls, m.group)}})
      [] name = "double_emphasis" ->
           the({IF sub.raised THEN sub
                ELSE strong(sub.self, sub.cls, sub.ret) :
                sub \in {parse_inline(p, self, cls, m.group)}})

\* the inline text s is scanned rule by rule and rendered bottom-up by the
\* renderer self; where no rule matches, a character is plain text
parse_inline(p, self, cls, s) ==
    IF s = <<>> THEN Return(self, cls, <<>>)
    ELSE
      the({the({the({IF head.raised THEN head
                     ELSE IF rest.raised THEN rest
                     ELSE [rest EXCEPT !.ret = head.ret \o @] :
                     rest \in {parse_inline(p, head.self, head.cls,
                                            SubSeq(s, m.len + 1, Len(s)))}}) :
                head \in {render_first(p, self, cls, name, m)}}) :
           name \in {first_rule(p, s)},
           m \in {IF first_rule(p, s) = "text"
                  THEN Match(1, SubSeq(s, 1, 1), FALSE)
                  ELSE pattern(p, first_rule(p, s), s)}})

(***************************************************************************)
(* M2R2                                                                    *)
(***************************************************************************)
\* the five ordered replacements of post_process
substitutions(t) ==
    replace(replace(replace(replace(replace(t,
        <<"\\", " ", NL>>, <<NL>>),
        <<NL, "\\", " ">>, <<NL>>),
        <<" ", "\\", " ">>, <<" ">>),
        <<"\\", " ", " ">>, <<" ">>),
        <<"\\", " ", ".">>, <<".">>)

RECURSIVE finalize(_)
\* "".join(data)
finalize(fragments) ==
    IF fragments = <<>> THEN <<>>
    ELSE fragments[1] \o finalize(Tail(fragments))

post_process(self, cls, t) ==
    LET output == substitutions(t)
    IN IF include_raw_html(self, cls) THEN PROLOG \o output ELSE output

\* the options RestRenderer.__init__ pops
renderer_options ==
    {"parse_relative_links", "anonymous_references", "use_mermaid"}

\* the values RestRenderer.__init__ pops from its keywords
renderer_kwargs(kwargs) ==
    [parse_relative_links |-> pop(kwargs, "parse_relative_links", FALSE),
     anonymous_references |-> pop(kwargs, "anonymous_references", FALSE),
     use_mermaid |-> pop(kwargs, "use_mermaid", FALSE)]

\* M2R2.__init__ with keywords only: disable_inline_math is popped, the
\* other keywords build the renderer, which hands those it does not pop to
\* its base class (base_kwargs), and disable_inline_math is the one
\* positional argument of the inline parser after the renderer
M2R2_init(kwargs) ==
    LET disable_inline_math == pop(kwargs, "disable_inline_math", FALSE)
        others == popped(kwargs, {"disable_inline_math"})
    IN [renderer |-> RestRenderer_init(renderer_kwargs(others)),
        base_kwargs |-> popped(others, renderer_options),
        inline |-> RestInlineParser_init(<<disable_inline_math>>, <<>>)]

(***************************************************************************)
(* Inputs                                                                  *)
(***************************************************************************)
\* all texts over chars of length at most n
Strings(chars, n) == UNION {[1..k -> chars] : k \in 0..n}

Kwargs == [parse_relative_links : BOOLEAN, anonymous_references : BOOLEAN,
           use_mermaid : BOOLEAN]

\* user text: a word, backslashes with spaces, and text that spells the list
\* placeholder
Texts == {<<"a">>, <<" ", "\\", " ", "\\", " ", "a">>, <<"x">> \o list_marker}

\* rendered titles, with and without wide characters
HeadingTexts == Strings({"a", WIDE}, MaxTitleLen)

CodeTexts == Strings({"a", BT}, MaxCodeLen)

Titles == {<<>>, <<"t">>}

Levels == 0..7

\* spec.md's examples sub/page.md#anchor and http://example.com
ExampleUrls ==
    {<<"s", "u", "b", "/", "p", "a", "g", "e", ".", "m", "d", "#", "a", "n",
       "c", "h", "o", "r">>,
     <<"h", "t", "t", "p", ":", "/", "/", "e", "x", "a", "m", "p", "l", "e",
       ".", "c", "o", "m">>}

UrlChars == {"a", ".", "/", "#", ":", "?"}

Urls == Strings(UrlChars, MaxUrlLen) \cup ExampleUrls

\* the options of the converters of Spec: the defaults, and every option on
DocKwargs == {k \in Kwargs : k.parse_relative_links = k.anonymous_references
                               /\ k.anonymous_references = k.use_mermaid}

\* the code spans of the documents of Spec
DocCodeTexts == {<<"a">>, <<"a", BT, BT, "b">>}

\* the heading levels of the documents of Spec: one the table has, and the
\* nearest ones it has not
DocLevels == {0, 1, 7}

\* the links of the documents of Spec
DocUrls == {<<"a", ".", "b", "#", "c">>}

\* rendered children of an inline node
ChildTexts == Strings({"a", " ", "\\"}, MaxChildLen)

\* footnote keys
Keys == {<<"1">>, <<"n", "o", "t", "e">>}

\* the rendered texts of list items: one line, two paragraphs, a paragraph
\* and an inner list, and a paragraph whose second line begins with the
\* text of the list placeholder
ItemTexts ==
    {<<"a", NL>>,
     <<"a", NL, NL, "b", NL>>,
     <<"a", NL, NL, "*", " ", "b", NL>>,
     <<"a", NL>> \o list_marker \o <<"b", NL>>}

\* the items of a list
ItemLists == UNION {[1..n -> ItemTexts] : n \in 1..MaxItems}

\* the info strings of fenced code: none, blank, math, mermaid (bare and
\* with white space around it) and another language
Infos ==
    {<<>>, <<" ">>, <<"m", "a", "t", "h">>, mermaid,
     <<" ">> \o mermaid \o <<" ">>, <<"p", "y">>}

\* the texts of blocks of code: lines, an empty line, an indented line
CodeBlocks ==
    {<<>>, <<"a", NL>>, <<"a", NL, NL, " ", "b", NL>>}

\* the keywords of the converters of SpecParser: each option given as true,
\* given as false, or not given
ParserOptions ==
    {"disable_inline_math", "no_underscore_emphasis", "anonymous_references"}

ParserKwargs == UNION {[names -> BOOLEAN] : names \in SUBSET ParserOptions}

\* inline math and code spans
MathSources ==
    {<<BT, "$", "a", "$", BT>>, <<BT, "a", BT>>, <<BT, "$", "a", BT>>,
     <<"x", BT, "$", "a", "$", BT>>}

\* _a_, __a__, *a* and **a**
EmphasisSources ==
    {<<"_", "a", "_">>, <<"_", "_", "a", "_", "_">>, <<"*", "a", "*">>,
     <<"*", "*", "a", "*", "*">>}

\* the paragraphs of SpecParser: words with emphasis delimiters, words with
\* colons and spaces, inline math and code spans
InlineSources ==
    Strings({"a", "_", "*"}, MaxInlineLen)
    \cup Strings({"a", " ", ":"}, MaxInlineLen)
    \cup MathSources
    \cup EmphasisSources

(***************************************************************************)
(* Nodes and renderer calls                                                *)
(***************************************************************************)
Node(type, t, url, title, level, ordered) ==
    [type |-> type, text |-> t, link |-> url, title |-> title,
     level |-> level, ordered |-> ordered]

Leaf(type, t) == Node(type, t, <<>>, <<>>, 0, FALSE)

NoCall == [node |-> Leaf("none", <<>>), children |-> <<>>, ret |-> <<>>,
           raised |-> FALSE, raw_before |-> FALSE, raw_after |-> FALSE]

\* the renderer method for node was called with the rendered children and
\* returned (or raised) r
Called(node, children, r) ==
    /\ last' = [node |-> node, children |-> children, ret |-> r.ret,
                raised |-> r.raised,
                raw_before |-> include_raw_html(renderer, cls_raw),
                raw_after |-> include_raw_html(r.self, r.cls)]
    /\ renderer' = r.self
    /\ cls_raw' = r.cls

(***************************************************************************)
(* Spec: convert(text, **kwargs) and converter(text)                       *)
(***************************************************************************)
\* the node is one whose rendering goes through _raw_html
passthrough(node) ==
    \/ node.type \in {"linebreak", "strikethrough", "inline_html"}
    \/ node.type = "codespan" /\ contains(node.text, <<BT, BT>>)
    \/ node.type = "link" /\ node.title # <<>>

used_passthrough(nodes) == \E i \in 1..Len(nodes) : passthrough(nodes[i])

Init ==
    /\ pc = "idle"
    /\ via = "none"
    /\ cls_raw = FALSE
    /\ renderer = RestRenderer_init([parse_relative_links |-> FALSE,
                                     anonymous_references |-> FALSE,
                                     use_mermaid |-> FALSE])
    /\ tokens = <<>>
    /\ inl = <<>>
    /\ body = <<>>
    /\ data = <<>>
    /\ result = <<>>
    /\ returned = FALSE
    /\ prev_raw = FALSE
    /\ ncalls = 0
    /\ last = NoCall
    /\ m2r2_kwargs = <<>>
    /\ inline = RestInlineParser_init(<<FALSE>>, <<>>)

\* a parse starts on the text handed in
StartParse ==
    /\ ncalls < MaxCalls
    /\ pc' = "parse"
    /\ tokens' = <<>>
    /\ inl' = <<>>
    /\ body' = <<>>
    /\ data' = <<>>
    /\ result' = <<>>
    /\ returned' = FALSE
    /\ prev_raw' = (prev_raw \/ used_passthrough(tokens))
    /\ ncalls' = ncalls + 1
    /\ last' = NoCall
    /\ UNCHANGED cls_raw

\* convert(text, options): a new M2R2 with a new renderer, then its parse
convert ==
    /\ pc \in {"idle", "done", "error"}
    /\ StartParse
    /\ \E kwargs \in DocKwargs :
          /\ renderer' = M2R2_init(kwargs).renderer
          /\ inline' = M2R2_init(kwargs).inline
          /\ m2r2_kwargs' = kwargs
    /\ via' = "convert"

\* converter(text) with the flag of the renderer put back to false first
M2R2_call_flag_reset ==
    /\ pc \in {"done", "error"}
    /\ StartParse
    /\ via' = "call"
    /\ renderer' = [renderer EXCEPT !.has_include_raw_html = FALSE]
    /\ UNCHANGED <<m2r2_kwargs, inline>>

\* converter(text) on the converter built by the latest convert
M2R2_call ==
    /\ pc \in {"done", "error"}
    /\ StartParse
    /\ via' = "call"
    /\ UNCHANGED <<renderer, m2r2_kwargs, inline>>

Rendering == pc = "parse" /\ Len(tokens) < MaxNodes

\* an inline leaf node: its rendering joins the children of the open block
InlineLeaf(node, r) ==
    /\ Rendering
    /\ Called(node, <<>>, r)
    /\ tokens' = Append(tokens, node)
    /\ inl' = inl \o r.ret
    /\ UNCHANGED <<pc, via, body, data, result, returned, prev_raw, ncalls,
                   m2r2_kwargs, inline>>

\* an inline node with children: it is rendered from the rendered children
InlineWrap(node, r) ==
    /\ Rendering
    /\ inl # <<>>
    /\ Called(node, inl, r)
    /\ tokens' = Append(tokens, node)
    /\ inl' = r.ret
    /\ UNCHANGED <<pc, via, body, data, result, returned, prev_raw, ncalls,
                   m2r2_kwargs, inline>>

Text ==
    /\ Rendering
    /\ \E t \in Texts : InlineLeaf(Leaf("text", t), text(renderer, cls_raw, t))

Codespan ==
    /\ Rendering
    /\ \E t \in DocCodeTexts :
          InlineLeaf(Leaf("codespan", t), codespan(renderer, cls_raw, t))

Linebreak == InlineLeaf(Leaf("linebreak", <<>>), linebreak(renderer, cls_raw))

InlineHtml ==
    /\ Rendering
    /\ \E html \in {<<"<", "i", ">">>} :
          InlineLeaf(Leaf("inline_html", html),
                     inline_html(renderer, cls_raw, html))

Emphasis == InlineWrap(Leaf("emphasis", <<>>), emphasis(renderer, cls_raw, inl))

Strikethrough ==
    InlineWrap(Leaf("strikethrough", <<>>), strikethrough(renderer, cls_raw, inl))

Link ==
    /\ Rendering
    /\ \E url \in DocUrls, title \in Titles :
          InlineWrap(Node("link", <<>>, url, title, 0, FALSE),
                     link(renderer, cls_raw, url, inl, title))

\* a block node made of the inline children: it joins the document, or its
\* renderer raises and the exception leaves parse and convert
Block(node, r) ==
    /\ Rendering
    /\ Called(node, inl, r)
    /\ tokens' = Append(tokens, node)
    /\ inl' = <<>>
    /\ IF r.raised
       THEN pc' = "error" /\ data' = <<>> /\ body' = <<>>
       ELSE pc' = pc /\ data' = Append(data, r.ret) /\ body' = body
    /\ UNCHANGED <<via, result, returned, prev_raw, ncalls, m2r2_kwargs,
                   inline>>

Paragraph ==
    /\ inl # <<>>
    /\ body = <<>>
    /\ Block(Leaf("paragraph", <<>>), paragraph(renderer, cls_raw, inl))

Heading ==
    /\ Rendering
    /\ body = <<>>
    /\ \E level \in DocLevels :
          Block(Node("heading", <<>>, <<>>, <<>>, level, FALSE),
                heading(renderer, cls_raw, inl, level))

\* a list item: block_text of its inline children, then list_item
ListItem ==
    /\ Rendering
    /\ LET item == block_text(renderer, cls_raw, inl).ret
           r == list_item(renderer, cls_raw, item)
       IN /\ Called(Leaf("list_item", <<>>), item, r)
          /\ body' = body \o r.ret
    /\ tokens' = Append(tokens, Leaf("list_item", <<>>))
    /\ inl' = <<>>
    /\ UNCHANGED <<pc, via, data, result, returned, prev_raw, ncalls,
                   m2r2_kwargs, inline>>

\* the list of the items rendered so far
List ==
    /\ Rendering
    /\ body # <<>>
    /\ inl = <<>>
    /\ \E ordered \in BOOLEAN :
          LET node == Node("list", <<>>, <<>>, <<>>, 0, ordered)
              r == list(renderer, cls_raw, body, ordered)
          IN /\ Called(node, body, r)
             /\ tokens' = Append(tokens, node)
             /\ data' = Append(data, r.ret)
    /\ body' = <<>>
    /\ UNCHANGED <<pc, via, inl, result, returned, prev_raw, ncalls,
                   m2r2_kwargs, inline>>

\* the document is rendered: parse returns post_process of the joined blocks
PostProcess ==
    /\ pc = "parse"
    /\ inl = <<>>
    /\ body = <<>>
    /\ result' = post_process(renderer, cls_raw, finalize(data))
    /\ returned' = TRUE
    /\ pc' = "done"
    /\ UNCHANGED <<via, cls_raw, renderer, tokens, inl, body, data, prev_raw,
                   ncalls, last, m2r2_kwargs, inline>>

Next ==
    \/ convert
    \/ M2R2_call
    \/ Text
    \/ Codespan
    \/ Linebreak
    \/ InlineHtml
    \/ Emphasis
    \/ Strikethrough
    \/ Link
    \/ Paragraph
    \/ Heading
    \/ ListItem
    \/ List
    \/ PostProcess

Spec == Init /\ [][Next]_vars

(***************************************************************************)
(* SpecRenderer: one renderer, one method call at a time                   *)
(***************************************************************************)
InitRenderer ==
    /\ pc = "ready"
    /\ via = "none"
    /\ cls_raw = FALSE
    /\ renderer \in {RestRenderer_init(kwargs) : kwargs \in Kwargs}
    /\ tokens = <<>>
    /\ inl = <<>>
    /\ body = <<>>
    /\ data = <<>>
    /\ result = <<>>
    /\ returned = FALSE
    /\ prev_raw = FALSE
    /\ ncalls = 0
    /\ last = NoCall
    /\ m2r2_kwargs = <<>>
    /\ inline = RestInlineParser_init(<<FALSE>>, <<>>)

MethodCall(node, children, r) ==
    /\ pc = "ready"
    /\ Called(node, children, r)
    /\ pc' = "called"
    /\ UNCHANGED <<via, tokens, inl, body, data, result, returned, prev_raw,
                   ncalls, m2r2_kwargs, inline>>

CallCodespan ==
    /\ pc = "ready"
    /\ \E t \in CodeTexts :
          MethodCall(Leaf("codespan", t), <<>>, codespan(renderer, cls_raw, t))

CallLink ==
    /\ pc = "ready"
    /\ \E url \in Urls, children \in {<<>>, <<"x">>}, title \in Titles :
          MethodCall(Node("link", <<>>, url, title, 0, FALSE), children,
                     link(renderer, cls_raw, url, children, title))

CallHeading ==
    /\ pc = "ready"
    /\ \E t \in HeadingTexts, level \in Levels :
          MethodCall(Node("heading", <<>>, <<>>, <<>>, level, FALSE), t,
                     heading(renderer, cls_raw, t, level))

\* strong of the renderer of m2r2.py, and strong and double_emphasis of the
\* renderer of rst/renderer.py
CallStrong ==
    /\ pc = "ready"
    /\ \E t \in ChildTexts :
          \/ MethodCall(Leaf("strong", <<>>), t, strong(renderer, cls_raw, t))
          \/ MethodCall(Leaf("rst_renderer_strong", <<>>), t,
                        rst_renderer_strong(renderer, cls_raw, t))
          \/ MethodCall(Leaf("rst_renderer_double_emphasis", <<>>), t,
                        rst_renderer_double_emphasis(renderer, cls_raw, t))

CallEmphasis ==
    /\ pc = "ready"
    /\ \E t \in ChildTexts :
          MethodCall(Leaf("emphasis", <<>>), t, emphasis(renderer, cls_raw, t))

CallFootnoteRef ==
    /\ pc = "ready"
    /\ \E key \in Keys, index \in 1..2 :
          MethodCall(Node("footnote_ref", key, <<>>, <<>>, index, FALSE), <<>>,
                     footnote_ref(renderer, cls_raw, key, index))

RECURSIVE list_body(_, _, _)
\* the text handed to list: the renderings of the items by list_item
list_body(self, cls, items) ==
    IF items = <<>> THEN <<>>
    ELSE list_item(self, cls, Head(items)).ret
         \o list_body(self, cls, Tail(items))

\* list(text, ordered, level, start) on the items rendered by list_item;
\* tokens holds the items
CallList ==
    /\ pc = "ready"
    /\ \E items \in ItemLists, ordered \in BOOLEAN :
          LET children == list_body(renderer, cls_raw, items)
          IN /\ Called(Node("list", <<>>, <<>>, <<>>, 0, ordered), children,
                       list(renderer, cls_raw, children, ordered))
             /\ tokens' = [i \in 1..Len(items) |-> Leaf("list_item", items[i])]
    /\ pc' = "called"
    /\ UNCHANGED <<via, inl, body, data, result, returned, prev_raw, ncalls,
                   m2r2_kwargs, inline>>

\* the footnote definitions of a document: key and rendered text
FootnoteItems ==
    {Node("footnote_item", t, <<>>, key, 0, FALSE) :
        t \in {<<"a">>, <<" ", "a", " ", "b", NL>>}, key \in Keys}

FootnoteLists == UNION {[1..n -> FootnoteItems] : n \in 0..MaxFootnotes}

RECURSIVE footnotes_text(_, _, _)
\* the text handed to footnotes: the renderings of the definitions by
\* footnote_item
footnotes_text(self, cls, items) ==
    IF items = <<>> THEN <<>>
    ELSE footnote_item(self, cls, Head(items).title, Head(items).text).ret
         \o footnotes_text(self, cls, Tail(items))

\* footnotes(text) on the definitions of the document; tokens holds them
CallFootnotes ==
    /\ pc = "ready"
    /\ \E items \in FootnoteLists :
          LET children == footnotes_text(renderer, cls_raw, items)
          IN /\ Called(Leaf("footnotes", <<>>), children,
                       footnotes(renderer, cls_raw, children))
             /\ tokens' = items
    /\ pc' = "called"
    /\ UNCHANGED <<via, inl, body, data, result, returned, prev_raw, ncalls,
                   m2r2_kwargs, inline>>

CallBlockCode ==
    /\ pc = "ready"
    /\ \E children \in CodeBlocks, info \in Infos :
          MethodCall(Node("block_code", children, <<>>, info, 0, FALSE), <<>>,
                     block_code(renderer, cls_raw, children, info))

\* the caller takes the returned text; the renderer is ready for more
Release ==
    /\ pc = "called"
    /\ pc' = "ready"
    /\ last' = NoCall
    /\ tokens' = <<>>
    /\ result' = <<>>
    /\ returned' = FALSE
    /\ UNCHANGED <<via, cls_raw, renderer, inl, body, data, prev_raw, ncalls,
                   m2r2_kwargs, inline>>

NextRenderer ==
    \/ CallCodespan
    \/ CallLink
    \/ CallHeading
    \/ CallStrong
    \/ CallEmphasis
    \/ CallFootnoteRef
    \/ CallList
    \/ CallFootnotes
    \/ CallBlockCode
    \/ Release

SpecRenderer == InitRenderer /\ [][NextRenderer]_vars

(***************************************************************************)
(* SpecParser: a converter is built from keywords, and then parses          *)
(* paragraphs of inline text.                                              *)
(***************************************************************************)
InitParser ==
    /\ pc = "new"
    /\ via = "none"
    /\ cls_raw = FALSE
    /\ renderer = RestRenderer_init(renderer_kwargs(<<>>))
    /\ tokens = <<>>
    /\ inl = <<>>
    /\ body = <<>>
    /\ data = <<>>
    /\ result = <<>>
    /\ returned = FALSE
    /\ prev_raw = FALSE
    /\ ncalls = 0
    /\ last = NoCall
    /\ m2r2_kwargs = <<>>
    /\ inline = RestInlineParser_init(<<FALSE>>, <<>>)

\* M2R2(keywords), or M2R2(inline=RestInlineParser(renderer,
\* disable_inline_math=value), keywords) when the caller builds the inline
\* parser.  The base class of the renderer is not of this repository: it
\* either takes the keywords the renderer did not pop or raises on them.
NewM2R2 ==
    /\ pc = "new"
    /\ \E kwargs \in ParserKwargs, own \in BOOLEAN, accepted \in BOOLEAN :
          LET m == M2R2_init(kwargs)
              given == [k \in DOMAIN kwargs \cap {"disable_inline_math"} |->
                          kwargs[k]]
          IN /\ m2r2_kwargs' = kwargs
             /\ renderer' = m.renderer
             /\ inline' = IF own THEN RestInlineParser_init(<<>>, given)
                          ELSE m.inline
             /\ via' = IF own THEN "inline" ELSE "default"
             /\ pc' = IF m.base_kwargs # <<>> /\ ~accepted
                      THEN "error" ELSE "ready"
    /\ UNCHANGED <<cls_raw, tokens, inl, body, data, result, returned,
                   prev_raw, ncalls, last>>

\* converter(text) on a text of one paragraph: the inline text is parsed and
\* rendered, then the paragraph, then the document is post-processed
ParseParagraph ==
    /\ pc = "ready"
    /\ \E s \in InlineSources :
          LET c == parse_inline(inline, renderer, cls_raw, s)
              r == IF c.raised THEN c ELSE paragraph(c.self, c.cls, c.ret)
          IN /\ Called(Leaf("paragraph", s), c.ret, r)
             /\ result' = IF r.raised THEN <<>>
                          ELSE post_process(r.self, r.cls, r.ret)
             /\ returned' = ~r.raised
    /\ pc' = "called"
    /\ UNCHANGED <<via, tokens, inl, body, data, prev_raw, ncalls, m2r2_kwargs,
                   inline>>

NextParser ==
    \/ NewM2R2
    \/ ParseParagraph
    \/ Release

SpecParser == InitParser /\ [][NextParser]_vars

(***************************************************************************)
(* A conversion run again from nothing: the nodes are rendered in order by *)
(* a renderer built from the options alone, as convert(text, options) does. *)
(***************************************************************************)
options(self) ==
    [parse_relative_links |-> self.parse_relative_links,
     anonymous_references |-> self.anonymous_references,
     use_mermaid |-> self.use_mermaid]

dispatch(self, cls, node, children) ==
    CASE node.type = "text" -> text(self, cls, node.text)
      [] node.type = "codespan" -> codespan(self, cls, node.text)
      [] node.type = "linebreak" -> linebreak(self, cls)
      [] node.type = "inline_html" -> inline_html(self, cls, node.text)
      [] node.type = "emphasis" -> emphasis(self, cls, children)
      [] node.type = "strikethrough" -> strikethrough(self, cls, children)
      [] node.type = "link" -> link(self, cls, node.link, children, node.title)
      [] node.type = "paragraph" -> paragraph(self, cls, children)
      [] node.type = "heading" -> heading(self, cls, children, node.level)
      [] node.type = "list_item" -> list_item(self, cls, children)
      [] node.type = "list" -> list(self, cls, children, node.ordered)

rerun_step(st, node) ==
    LET leaf == node.type \in {"text", "codespan", "linebreak", "inline_html"}
        wrap == node.type \in {"emphasis", "strikethrough", "link"}
        children == IF node.type = "list" THEN st.body
                    ELSE IF node.type = "list_item"
                    THEN block_text(st.self, st.cls, st.inl).ret
                    ELSE st.inl
        r == dispatch(st.self, st.cls, node, children)
    IN [self |-> r.self, cls |-> r.cls, raised |-> r.raised,
        inl |-> IF leaf THEN st.inl \o r.ret
                ELSE IF wrap THEN r.ret
                ELSE IF node.type = "list" THEN st.inl ELSE <<>>,
        body |-> IF node.type = "list_item" THEN st.body \o r.ret
                 ELSE IF node.type = "list" THEN <<>> ELSE st.body,
        data |-> IF leaf \/ wrap \/ node.type = "list_item" THEN st.data
                 ELSE Append(st.data, r.ret)]

RECURSIVE rerun(_, _)
rerun(st, nodes) ==
    IF nodes = <<>> \/ st.raised THEN st
    ELSE rerun(rerun_step(st, Head(nodes)), Tail(nodes))

fresh_convert(kwargs, nodes) ==
    LET st == rerun([self |-> RestRenderer_init(kwargs), cls |-> FALSE,
                     raised |-> FALSE, inl |-> <<>>, body |-> <<>>,
                     data |-> <<>>], nodes)
    IN post_process(st.self, st.cls, finalize(st.data))

(***************************************************************************)
(* Properties                                                              *)
(***************************************************************************)
flag == include_raw_html(renderer, cls_raw)

\* C1: in one convert call the raw-HTML flag is true exactly when a rendered
\* node went through the raw-HTML passthrough (a code span holding two
\* backticks, a line break, a strikethrough, inline HTML, a titled link), and
\* the returned text is the post-processed document with PROLOG in front
\* exactly when the flag is true; without such a node there is no prolog.
RawHtmlFlagAndProlog ==
    via = "convert" =>
       /\ pc \in {"parse", "done"} => (flag <=> used_passthrough(tokens))
       /\ pc = "done" =>
            /\ flag => result = PROLOG \o substitutions(finalize(data))
            /\ ~flag => result = substitutions(finalize(data))
            /\ ~used_passthrough(tokens) => ~startswith(result, PROLOG)

\* a convert call has returned a document with a raw-HTML node next to one
\* without, and the prolog leads the output
RawHtmlFlagAndPrologWitness ==
    /\ pc = "done"
    /\ via = "convert"
    /\ \E i, j \in 1..Len(tokens) :
          passthrough(tokens[i]) /\ ~passthrough(tokens[j])
    /\ flag
    /\ startswith(result, PROLOG)

\* C2: for a level in 1..6, heading(T, L) is the title line T followed by
\* one underline of the level's character repeated to the display width of
\* T, wide characters counting two columns.
HeadingUnderlineDisplayWidth ==
    (last.node.type = "heading" /\ last.node.level \in 1..6) =>
       /\ ~last.raised
       /\ last.ret = <<NL>> \o last.children \o <<NL>>
                     \o repeat(hmarks[last.node.level],
                               column_width(last.children))
                     \o <<NL>>

\* C3: the five replacements of post_process are idempotent on every
\* rendered document.
PostProcessIdempotent ==
    pc = "done" =>
       substitutions(substitutions(finalize(data))) =
          substitutions(finalize(data))

\* the list body with the placeholder that leads each item turned into the
\* mark, every other line indented, and nothing else touched
markers_resolved(t, ordered) ==
    LET mark == IF ordered THEN <<"#", ".", " ">> ELSE <<"*", " ">>
        lines == splitlines(t)
        resolved == [i \in 1..Len(lines) |->
                       IF startswith(lines[i], list_marker)
                       THEN mark \o SubSeq(lines[i], Len(list_marker) + 1,
                                           Len(lines[i]))
                       ELSE IF lines[i] # <<>>
                       THEN repeat(" ", Len(mark)) \o lines[i]
                       ELSE <<>>]
    IN <<NL>> \o join(<<NL>>, resolved) \o <<NL>>

\* C4: list replaces the placeholder in front of each item by the mark once
\* per item and in item order, and changes no other text of the body, user
\* text that spells the placeholder included.
ListMarkerExactlyOnce ==
    last.node.type = "list" =>
       last.ret = markers_resolved(last.children, last.node.ordered)

RECURSIVE backticks_escaped(_)
backticks_escaped(t) ==
    IF t = <<>> THEN <<>>
    ELSE (IF t[1] = BT THEN <<"&", "#", "9", "6", ";">> ELSE <<t[1]>>)
         \o backticks_escaped(Tail(t))

\* C5: codespan(text) is the escaped inline literal and leaves the raw-HTML
\* flag alone when text holds no two backticks in a row; otherwise it is
\* the raw-HTML code span with every backtick written &#96; and the flag set.
CodespanLiteralOrRawHtml ==
    last.node.type = "codespan" =>
       IF \E i \in 1..(Len(last.node.text) - 1) :
             last.node.text[i] = BT /\ last.node.text[i + 1] = BT
       THEN /\ last.ret = raw_html_text(code_html(backticks_escaped(last.node.text)))
            /\ last.raw_after
       ELSE /\ last.ret = <<"\\", " ", BT, BT>> \o last.node.text
                          \o <<BT, BT, "\\", " ">>
            /\ last.raw_after = last.raw_before

\* a code span holding two backticks in a row was rendered by a renderer
\* whose flag was not set before
CodespanLiteralOrRawHtmlWitness ==
    /\ last.node.type = "codespan"
    /\ last.node.text = <<"a", BT, BT>>
    /\ ~last.raw_before
    /\ last.raw_after

\* the text a link shows: its children, the URL when it has none
link_text == IF last.children # <<>> THEN last.children ELSE last.node.link

\* C6: an untitled link whose URL has a scheme, or any untitled link when
\* parse_relative_links is off, is the escaped hyperlink reference to the
\* URL, labelled with the text, with one trailing underscore, two when
\* anonymous_references is on; it is never a :doc: or :ref: role.
ExternalHyperlink ==
    (/\ last.node.type = "link"
     /\ last.node.title = <<>>
     /\ (urlparse(last.node.link).scheme # <<>>
         \/ ~renderer.parse_relative_links)) =>
       /\ last.ret = <<"\\", " ", BT>> \o link_text \o <<" ", "<">>
                     \o last.node.link \o <<">", BT>>
                     \o (IF renderer.anonymous_references
                         THEN <<"_", "_">> ELSE <<"_">>)
                     \o <<"\\", " ">>
       /\ ~startswith(last.ret, <<"\\", " ", ":">>)
       /\ last.raw_after = last.raw_before

\* [x](http://example.com) was rendered with parse_relative_links on and
\* anonymous_references off
ExternalHyperlinkWitness ==
    /\ last.node.type = "link"
    /\ last.node.title = <<>>
    /\ last.children = <<"x">>
    /\ last.node.link = <<"h", "t", "t", "p", ":", "/", "/", "e", "x", "a",
                          "m", "p", "l", "e", ".", "c", "o", "m">>
    /\ renderer.parse_relative_links
    /\ ~renderer.anonymous_references
    /\ endswith(last.ret, <<">", BT, "_", "\\", " ">>)

\* the path without its extension: cut at the last dot when that dot is in
\* the last component and a character other than a dot precedes it there
stem(path) ==
    LET cuts == {k \in 1..Len(path) :
                   /\ path[k] = "."
                   /\ \A m \in (k + 1)..Len(path) : path[m] \notin {".", "/"}
                   /\ \E m \in 1..(k - 1) :
                         /\ path[m] # "."
                         /\ \A n \in m..(k - 1) : path[n] # "/"}
    IN IF cuts = {} THEN path ELSE SubSeq(path, 1, Max(cuts) - 1)

\* C7: with parse_relative_links on, an untitled link whose URL has no
\* scheme is a :doc: role whose target is the URL path without its
\* extension, a fragment next to a path being dropped; it is a :ref: role,
\* whose target is the fragment, only for a bare fragment with no path.
RelativeLinkDocOrRef ==
    (/\ last.node.type = "link"
     /\ last.node.title = <<>>
     /\ renderer.parse_relative_links
     /\ urlparse(last.node.link).scheme = <<>>) =>
       LET url_info == urlparse(last.node.link)
           role(name, target) ==
               <<"\\", " ", ":">> \o name \o <<":", BT>> \o link_text
               \o <<" ", "<">> \o target \o <<">", BT, "\\", " ">>
       IN IF url_info.path = <<>> /\ url_info.fragment # <<>>
          THEN last.ret = role(<<"r", "e", "f">>, url_info.fragment)
          ELSE last.ret = role(<<"d", "o", "c">>, stem(url_info.path))

\* [x](sub/page.md#anchor) was rendered with parse_relative_links on, as a
\* :doc: role to sub/page
RelativeLinkDocOrRefWitness ==
    /\ last.node.type = "link"
    /\ last.node.title = <<>>
    /\ last.children = <<"x">>
    /\ last.node.link = <<"s", "u", "b", "/", "p", "a", "g", "e", ".", "m",
                          "d", "#", "a", "n", "c", "h", "o", "r">>
    /\ renderer.parse_relative_links
    /\ last.ret = <<"\\", " ", ":", "d", "o", "c", ":", BT, "x", " ", "<",
                    "s", "u", "b", "/", "p", "a", "g", "e", ">", BT, "\\",
                    " ">>

\* C8: a link with a title is the raw-HTML anchor <a href=... title=...>
\* in the raw-HTML role and sets the raw-HTML flag, whatever the options
\* and the URL.
TitledLinkRawHtml ==
    (last.node.type = "link" /\ last.node.title # <<>>) =>
       /\ last.ret = <<"\\", " ", ":", "r", "a", "w", "-", "h", "t", "m", "l",
                       "-", "m", "2", "r", ":", BT, "<", "a", " ", "h", "r",
                       "e", "f", "=", "\"">> \o last.node.link
                     \o <<"\"", " ", "t", "i", "t", "l", "e", "=", "\"">>
                     \o last.node.title \o <<"\"", ">">> \o link_text
                     \o <<"<", "/", "a", ">", BT, "\\", " ">>
       /\ last.raw_after

\* a titled relative link was rendered with parse_relative_links and
\* anonymous_references on, by a renderer whose flag was not set before
TitledLinkRawHtmlWitness ==
    /\ last.node.type = "link"
    /\ last.node.title # <<>>
    /\ renderer.parse_relative_links
    /\ renderer.anonymous_references
    /\ urlparse(last.node.link).scheme = <<>>
    /\ urlparse(last.node.link).path # <<>>
    /\ ~last.raw_before
    /\ last.raw_after

\* C9: a convert call starts with a raw-HTML flag that is not set, its
\* output is the output of converting its own nodes with its own options
\* from nothing, and it carries no prolog when its own nodes need none,
\* whatever the calls before it did.
ConvertSelfContained ==
    via = "convert" =>
       /\ (pc = "parse" /\ tokens = <<>>) => ~flag
       /\ pc = "done" =>
            /\ result = fresh_convert(options(renderer), tokens)
            /\ ~used_passthrough(tokens) => ~startswith(result, PROLOG)

\* a second convert call has returned a document without raw-HTML nodes,
\* after a call that went through the passthrough
ConvertSelfContainedWitness ==
    /\ pc = "done"
    /\ via = "convert"
    /\ ncalls = 2
    /\ prev_raw
    /\ tokens # <<>>
    /\ ~used_passthrough(tokens)
    /\ ~startswith(result, PROLOG)

\* C10: a heading whose level is outside 1..6 raises: the conversion ends
\* in an error with no text returned, and no conversion that returned has
\* rendered such a heading.
HeadingLevelOutOfRangeAborts ==
    /\ (last.node.type = "heading" /\ last.node.level \notin 1..6) =>
          /\ last.raised
          /\ pc = "error"
          /\ ~returned
          /\ result = <<>>
    /\ returned =>
          \A i \in 1..Len(tokens) :
             tokens[i].type = "heading" => tokens[i].level \in 1..6

\* a heading of level 7 with a title has ended a conversion in an error
HeadingLevelOutOfRangeAbortsWitness ==
    /\ pc = "error"
    /\ last.node.type = "heading"
    /\ last.node.level = 7
    /\ last.children # <<>>
    /\ ~returned

\* the converter of SpecParser is built
built == pc \in {"ready", "called"}

\* the value the converter was given for an option, false when not given
option(name) == pop(m2r2_kwargs, name, FALSE)

\* C11: when disable_inline_math is true the rule inline_math is absent from
\* the rule list of the inline parser and a backtick-dollar text is rendered
\* by the code-span rule; when it is false the rule is present and the text
\* is rendered as a :math: role.
InlineMathRuleFollowsOption ==
    built =>
       /\ option("disable_inline_math") <=>
             "inline_math" \notin Range(rules(inline))
       /\ (pc = "called"
              /\ INLINE_MATH(last.node.text).len = Len(last.node.text)) =>
             /\ ~last.raised
             /\ last.children =
                  IF option("disable_inline_math")
                  THEN literal(CODESPAN(last.node.text).group)
                  ELSE <<":", "m", "a", "t", "h", ":", BT>>
                       \o INLINE_MATH(last.node.text).group \o <<BT>>

\* C12: when no_underscore_emphasis is true the emphasis and double-emphasis
\* patterns in use accept the asterisk only, so a text without asterisks is
\* never rendered as emphasis or strong; when it is false both delimiters
\* are accepted, and _a_ is an emphasis and __a__ a strong emphasis.
NoUnderscoreEmphasisSelectsGrammar ==
    built =>
       IF option("no_underscore_emphasis")
       THEN /\ inline.EMPHASIS = {"*"}
            /\ inline.DOUBLE_EMPHASIS = {"*"}
            /\ (pc = "called" /\ "*" \notin Range(last.node.text)) =>
                  "*" \notin Range(last.children)
       ELSE /\ inline.EMPHASIS = {"_", "*"}
            /\ inline.DOUBLE_EMPHASIS = {"_", "*"}
            /\ (pc = "called" /\ last.node.text = <<"_", "a", "_">>) =>
                  last.children = ESC \o <<"*", "a", "*">> \o ESC
            /\ (pc = "called"
                   /\ last.node.text = <<"_", "_", "a", "_", "_">>) =>
                  last.children = ESC \o <<"*", "*", "a", "*", "*">> \o ESC

\* C13: a paragraph whose text ends with two colons is rendered with the two
\* colons standing when white space precedes them, and with a single colon,
\* one colon of the source consumed, when they are attached to the text
\* before them.
EolLiteralMarkerKeepsOrConsumes ==
    (pc = "called" /\ last.node.type = "paragraph" /\ ~last.raised) =>
       LET s == last.node.text
           n == Len(s)
       IN (n >= 3 /\ SubSeq(s, n - 1, n) = <<":", ":">> /\ s[n - 2] # ":") =>
             IF isspace(s[n - 2])
             THEN endswith(last.ret, <<":", ":", NL>>)
             ELSE last.ret = <<NL>> \o SubSeq(s, 1, n - 1) \o <<NL>>

\* C14: every rendering of a strong emphasis, an emphasis, a link without a
\* title (hyperlink, :doc: or :ref:), a footnote reference and a code span
\* without two backticks in a row begins and ends with the marker backslash
\* and space, whatever the text of its children.
StandaloneEscapeWrapping ==
    (/\ pc = "called"
     /\ ~last.raised
     /\ \/ last.node.type \in {"strong", "rst_renderer_strong",
                               "rst_renderer_double_emphasis", "emphasis",
                               "footnote_ref"}
        \/ last.node.type = "link" /\ last.node.title = <<>>
        \/ last.node.type = "codespan"
             /\ ~contains(last.node.text, <<BT, BT>>)) =>
       /\ Len(last.ret) >= 2 * Len(ESC)
       /\ startswith(last.ret, ESC)
       /\ endswith(last.ret, ESC)

\* the lines of one item as the claim has them: the marker and the first
\* line, and every other line that is not empty behind as many spaces as
\* the marker is wide
item_lines(mark, x) ==
    LET lines == splitlines(x)
    IN [i \in 1..Len(lines) |->
          IF i = 1 THEN mark \o lines[i]
          ELSE IF lines[i] # <<>> THEN repeat(" ", Len(mark)) \o lines[i]
          ELSE <<>>]

RECURSIVE all_item_lines(_, _)
\* the lines of all items, an empty line before each item
all_item_lines(mark, items) ==
    IF items = <<>> THEN <<>>
    ELSE <<<<>>>> \o item_lines(mark, Head(items).text)
         \o all_item_lines(mark, Tail(items))

\* C15: list gives every item the marker "#. " when the list is ordered and
\* "* " when it is not, and indents every line of the body that is not empty
\* and is not the first line of an item of this list by the width of the
\* marker, 3 or 2.
ListMarkersAndIndent ==
    (pc = "called" /\ last.node.type = "list" /\ tokens # <<>>) =>
       LET mark == IF last.node.ordered THEN <<"#", ".", " ">>
                   ELSE <<"*", " ">>
       IN last.ret =
             <<NL>> \o join(<<NL>>, all_item_lines(mark, tokens)) \o <<NL>>

\* C16: footnotes(text) returns the footnote definitions with one blank line
\* before them when there is at least one definition, and the empty text when
\* there is none; the definitions stand in the returned block once each.
FootnotesBlock ==
    (pc = "called" /\ last.node.type = "footnotes") =>
       /\ ~last.raised
       /\ tokens = <<>> => last.ret = <<>>
       /\ tokens # <<>> =>
            /\ last.ret = <<NL, NL>> \o last.children
            /\ Cardinality(occurrences(last.ret, <<".", ".", " ", "[">>))
                 = Len(tokens)
            /\ \A i \in 1..Len(tokens) :
                  contains(last.ret,
                           <<"[", "#", "f", "n", "-">> \o tokens[i].title
                           \o <<"]", " ">> \o strip(tokens[i].text) \o <<NL>>)

\* C16 witness: footnotes returned the block of two definitions
FootnotesBlockWitness ==
    /\ pc = "called"
    /\ last.node.type = "footnotes"
    /\ Len(tokens) = 2
    /\ startswith(last.ret, <<NL, NL, ".", ".", " ", "[">>)

\* the language of the block of code the latest call rendered
lang_called == strip(last.node.title)

\* the text after the first line of the block: the code behind three spaces
\* on each line that is not empty
code_called == _indent_block(last.node.text) \o <<NL>>

\* C17: a block of code labelled mermaid is rendered as the mermaid directive
\* only when use_mermaid is true and as a code-block of language mermaid
\* otherwise; a block labelled math is the math directive and a block without
\* a label the bare code-block directive, use_mermaid true or not.
BlockCodeDirective ==
    (pc = "called" /\ last.node.type = "block_code") =>
       /\ ~last.raised
       /\ lang_called = mermaid =>
            last.ret =
              <<NL>>
              \o (IF renderer.use_mermaid THEN mermaid_directive
                  ELSE code_block_directive \o <<" ">> \o mermaid)
              \o <<NL, NL>> \o code_called
       /\ lang_called = <<"m", "a", "t", "h">> =>
            last.ret = <<NL>> \o math_directive \o <<NL, NL>> \o code_called
       /\ lang_called = <<>> =>
            last.ret =
              <<NL>> \o code_block_directive \o <<NL, NL>> \o code_called

\* C17 witness: with use_mermaid true a block labelled mermaid was rendered
\* as the mermaid directive
BlockCodeDirectiveWitness ==
    /\ pc = "called"
    /\ last.node.type = "block_code"
    /\ lang_called = mermaid
    /\ last.node.text # <<>>
    /\ renderer.use_mermaid
    /\ startswith(last.ret,
                  <<NL>> \o mermaid_directive \o <<NL, NL, " ", " ", " ", "a">>)

\* the step builds a new converter
new_converter == via' = "convert" /\ ncalls' # ncalls

\* C18: on one converter used for several parses the raw-HTML flag is only
\* ever set and never reset: no step but the building of a new converter
\* takes the flag from true to false, so a parse by a converter whose flag
\* an earlier parse has set returns its text behind PROLOG, also when the
\* document it parses has no node that goes through the raw-HTML passthrough.
RawHtmlFlagSticky ==
    /\ [][(flag /\ ~new_converter) => flag']_vars
    /\ [][(pc = "done" /\ used_passthrough(tokens) /\ ~new_converter) =>
            flag']_vars
    /\ []((pc = "done" /\ via = "call" /\ flag) =>
            result = PROLOG \o substitutions(finalize(data)))

\* C18 witness: a parse of a reused converter returned a document without
\* any raw-HTML node behind PROLOG
RawHtmlFlagStickyWitness ==
    /\ pc = "done"
    /\ via = "call"
    /\ tokens # <<>>
    /\ ~used_passthrough(tokens)
    /\ prev_raw
    /\ startswith(result, PROLOG)

====
